---- MODULE Spec2Model ----
(***************************************************************************)
(* Authenticating reverse proxy in front of the Docling conversion         *)
(* backend (src/main.py): the bearer-token gate authenticate_request and   *)
(* the five forwarding handlers, one task per inbound request.             *)
(*                                                                         *)
(* Text that the code inspects (the Authorization header value, the        *)
(* configured secret) is a sequence of one-character strings; text that    *)
(* the code only copies (content types, bodies, messages) is a string.     *)
(* An Optional value is None (the empty sequence) or Some(x) (<<x>>).      *)
(* A body is the sequence of the chunks of text it is written from.        *)
(* Durations are in tenths of a second, so that wait=2.5 is 25.            *)
(***************************************************************************)
EXTENDS Integers, Sequences, FiniteSets, TLC

\* Number of inbound requests that can be in progress at the same time.
NumRequests == 2
\* Longest Authorization header value, counted in pieces (words and blanks).
MaxPieces == 5

None == <<>>
Some(x) == <<x>>

Range(s) == {s[i] : i \in 1..Len(s)}

-----------------------------------------------------------------------------
(* Text helpers: str.lower and str.split(None, 1).                         *)

Whitespace == {" "}

LowerChar(c) ==
    CASE c = "B" -> "b"
      [] c = "E" -> "e"
      [] c = "A" -> "a"
      [] c = "R" -> "r"
      [] c = "T" -> "t"
      [] c = "K" -> "k"
      [] OTHER -> c

Lower(s) == [i \in 1..Len(s) |-> LowerChar(s[i])]

RECURSIVE LStrip(_)
LStrip(s) == IF s # <<>> /\ Head(s) \in Whitespace THEN LStrip(Tail(s)) ELSE s

RECURSIVE FirstWord(_)
FirstWord(s) ==
    IF s = <<>> \/ Head(s) \in Whitespace THEN <<>>
    ELSE <<Head(s)>> \o FirstWord(Tail(s))

\* auth_header.split(None, 1): leading blanks are skipped, the first word is
\* cut at the first run of blanks, and what follows that run is kept whole
\* (inner and trailing blanks included) as the second part.
Split1(s) ==
    LET a == LStrip(s) IN
    IF a = <<>> THEN <<>>
    ELSE LET w == FirstWord(a)
             rest == LStrip(SubSeq(a, Len(w) + 1, Len(a)))
         IN IF rest = <<>> THEN <<w>> ELSE <<w, rest>>

bearer == <<"b", "e", "a", "r", "e", "r">>

-----------------------------------------------------------------------------
(* Configuration and the Auth Gate.                                        *)

DOCLING_API_URL == "http://docling-serve-cpu.railway.internal:3000"

EXCLUDED_PATHS == {<<"health">>, <<"docs">>, <<"openapi.json">>}

\* The JSON text of {key: value}.
JsonObject(key, value) == <<"{\"", key, "\":\"", value, "\"}">>

\* JSONResponse(status_code=..., content={"detail": ...})
JSONResponse(status, detail) ==
    [status_code |-> status,
     content |-> JsonObject("detail", detail),
     headers |-> ("content-type" :> "application/json")]

\* "request.url.path in EXCLUDED_PATHS"
IsExcludedHealthOnly(path) == path = <<"health">>
IsExcluded(path) == path \in EXCLUDED_PATHS

\* Python truthiness of an Optional[str]: None and "" are falsy.
IsUnsetNoneOnly(opt) == opt = None
IsUnset(opt) == opt = None \/ opt[1] = <<>>

\* The negation of "len(parts) != 2 or parts[0].lower() != 'bearer'".
FormatOkAnyScheme(parts) == Len(parts) = 2
FormatOkCaseSensitive(parts) ==
    Len(parts) = 2 /\ parts[1] = <<"B", "e", "a", "r", "e", "r">>
FormatOk(parts) == Len(parts) = 2 /\ Lower(parts[1]) = bearer

\* The negation of "token != DOCLING_API_TOKEN".
TokenOkIgnoreCase(token, secret) == Lower(token) = Lower(secret[1])
TokenOk(token, secret) == token = secret[1]

\* The decision of authenticate_request for a request with this path and
\* Authorization header: "next" (call_next) or the response it answers with.
Gate(secret, path, auth) ==
    IF IsExcluded(path) THEN [kind |-> "next"]
    ELSE IF IsUnset(secret)
    THEN [kind |-> "reject",
          print |-> "CRITICAL: Proxy configuration error: DOCLING_API_TOKEN not set.",
          response |-> JSONResponse(503, "Service unavailable: Configuration error")]
    ELSE IF IsUnset(auth)
    THEN [kind |-> "reject",
          response |-> JSONResponse(401, "Authorization header required")]
    ELSE LET parts == Split1(auth[1]) IN
         IF ~FormatOk(parts)
         THEN [kind |-> "reject",
               response |-> JSONResponse(401,
                  "Invalid Authorization header format. Expected 'Bearer <token>'")]
         ELSE IF ~TokenOk(parts[2], secret)
         THEN [kind |-> "reject",
               response |-> JSONResponse(401, "Invalid authorization token")]
         ELSE [kind |-> "next"]

-----------------------------------------------------------------------------
(* Routes.  A path is the sequence of its segments.                        *)

TaskIds == {"abc123"}

Paths ==
    EXCLUDED_PATHS
    \cup {<<"convert", "file">>, <<"convert", "source">>,
          <<"convert", "source", "async">>, <<"other">>}
    \cup {<<"status", "poll", t>> : t \in TaskIds}
    \cup {<<"result", t>> : t \in TaskIds}

PostHandlers ==
    {"proxy_convert_file", "proxy_convert_source", "proxy_convert_source_async"}
GetHandlers == {"proxy_task_status", "proxy_task_result"}
ProxyHandlers == PostHandlers \cup GetHandlers

\* The route decorators: the handler that serves a path, and its method.
RouteOf(path) ==
    CASE path = <<"health">> -> [handler |-> "health", method |-> "GET"]
      [] path = <<"docs">> -> [handler |-> "docs", method |-> "GET"]
      [] path = <<"openapi.json">> -> [handler |-> "openapi", method |-> "GET"]
      [] path = <<"convert", "file">> ->
            [handler |-> "proxy_convert_file", method |-> "POST"]
      [] path = <<"convert", "source">> ->
            [handler |-> "proxy_convert_source", method |-> "POST"]
      [] path = <<"convert", "source", "async">> ->
            [handler |-> "proxy_convert_source_async", method |-> "POST"]
      [] Len(path) = 3 /\ SubSeq(path, 1, 2) = <<"status", "poll">> ->
            [handler |-> "proxy_task_status", method |-> "GET"]
      [] Len(path) = 2 /\ path[1] = "result" ->
            [handler |-> "proxy_task_result", method |-> "GET"]
      [] OTHER -> [handler |-> "not_found", method |-> "GET"]

\* What the application dispatches a request to once the gate calls call_next.
Dispatch(q) ==
    LET route == RouteOf(q.path) IN
    IF route.handler = "not_found" THEN "not_found"
    ELSE IF route.method # q.method THEN "method_not_allowed"
    ELSE route.handler

-----------------------------------------------------------------------------
(* The forwarding handlers: the outbound call each one prepares.           *)

Max(a, b) == IF a >= b THEN a ELSE b

NoHeaders == <<>>

\* request.headers.get("Content-Type", "")
HeaderGet(opt, default) == IF opt = None THEN default ELSE opt[1]

\* client.post(target_url, content=raw_body, headers=headers, timeout=...)
PostCallJsonOnly(suffix, timeout, loc) ==
    [method |-> "POST",
     url |-> <<DOCLING_API_URL, suffix>>,
     content |-> Some(loc.raw_body),
     headers |-> ("Content-Type" :> "application/json"),
     timeout |-> timeout]
PostCall(suffix, timeout, loc) ==
    [method |-> "POST",
     url |-> <<DOCLING_API_URL, suffix>>,
     content |-> Some(loc.raw_body),
     headers |-> ("Content-Type" :> loc.content_type),
     timeout |-> timeout]

\* client.get(target_url, timeout=...)
GetCall(url, timeout) ==
    [method |-> "GET",
     url |-> url,
     content |-> None,
     headers |-> NoHeaders,
     timeout |-> timeout]

proxy_convert_file(loc) == PostCall("/v1alpha/convert/file", 3000, loc)

proxy_convert_source(loc) == PostCall("/v1alpha/convert/source", 3000, loc)

proxy_convert_source_async(loc) ==
    PostCall("/v1alpha/convert/source/async", 300, loc)

\* f"{wait}" for the float wait, given in tenths.
FormatFloat(tenths) ==
    CASE tenths = 0 -> "0.0"
      [] tenths = 25 -> "2.5"
      [] tenths = 300 -> "30.0"

proxy_task_status(task_id, wait) ==
    GetCall(<<DOCLING_API_URL, "/v1alpha/status/poll/", task_id>>
                \o (IF wait > 0 THEN <<"?wait=", FormatFloat(wait)>> ELSE <<>>),
            Max(wait + 50, 300))

proxy_task_result(task_id) ==
    GetCall(<<DOCLING_API_URL, "/v1alpha/result/", task_id>>, 600)

\* The outbound call of the handler that serves request q.
OutboundCall(q, loc) ==
    LET h == Dispatch(q) IN
    CASE h = "proxy_convert_file" -> proxy_convert_file(loc)
      [] h = "proxy_convert_source" -> proxy_convert_source(loc)
      [] h = "proxy_convert_source_async" -> proxy_convert_source_async(loc)
      [] h = "proxy_task_status" -> proxy_task_status(q.path[3], q.wait)
      [] h = "proxy_task_result" -> proxy_task_result(q.path[2])

\* logger.info(...) of the handlers that announce their target.
InfoLog(q, loc) ==
    LET h == Dispatch(q) IN
    IF h \in {"proxy_convert_source_async", "proxy_task_status", "proxy_task_result"}
    THEN <<[level |-> "INFO", url |-> OutboundCall(q, loc).url]>>
    ELSE <<>>

\* dict(response.headers): one item per header name of the mapping.
Dict(headers) == [k \in DOMAIN headers |-> headers[k]]

\* Response(content=response.content, status_code=response.status_code,
\*          headers=dict(response.headers))
RelayErrorsAs500(response) ==
    [status_code |-> IF response.status_code >= 400 THEN 500
                     ELSE response.status_code,
     content |-> response.content,
     headers |-> Dict(response.headers)]
Relay(response) ==
    [status_code |-> response.status_code,
     content |-> response.content,
     headers |-> Dict(response.headers)]

BackendErrorDetail == "Error communicating with backend service"

\* raise HTTPException(status_code=500, detail=...), as the caller sees it.
UpstreamErrorLeaky(e) == JSONResponse(500, e.text)
UpstreamError(e) == JSONResponse(500, BackendErrorDetail)

\* httpx.AsyncClient(): a client object that no other open client is.
NewClient(used) == CHOOSE c \in 1..NumRequests : c \notin used

\* Leaving "async with": the client is closed.
KeepOpen(opened, c) == opened
Close(opened, c) == opened \ {c}

-----------------------------------------------------------------------------
(* State.                                                                  *)

VARIABLES
    DOCLING_API_TOKEN,  \* the configured secret, read once at start
    pc,                 \* where each request's task is
    req,                \* the inbound request of each task
    loc,                \* content_type and raw_body once the body is read
    client,             \* the outbound client each handler acquired (0: none)
    opened,             \* the outbound clients that are open
    out,                \* the outbound call each handler issued
    backend,            \* how that call ended
    resp,               \* the response each task answers with
    log                 \* what each task printed or logged so far

vars == <<DOCLING_API_TOKEN, pc, req, loc, client, opened, out, backend, resp, log>>

Tasks == 1..NumRequests

Finished == {"responded", "raised", "cancelled"}

\* The secret is unset, empty, or a token.
Secrets ==
    {None, Some(<<>>), Some(<<"t", "K">>), Some(<<"t", "k">>)}

InitOf(secrets) ==
    /\ DOCLING_API_TOKEN \in secrets
    /\ pc = [r \in Tasks |-> "idle"]
    /\ req = [r \in Tasks |-> None]
    /\ loc = [r \in Tasks |-> None]
    /\ client = [r \in Tasks |-> 0]
    /\ opened = {}
    /\ out = [r \in Tasks |-> None]
    /\ backend = [r \in Tasks |-> None]
    /\ resp = [r \in Tasks |-> None]
    /\ log = [r \in Tasks |-> <<>>]

-----------------------------------------------------------------------------
(* Steps of one request's task, cut at the points where it awaits.         *)

\* A request arrives.
Receive(r, requests) ==
    /\ pc[r] = "idle"
    /\ \E q \in requests : req' = [req EXCEPT ![r] = Some(q)]
    /\ pc' = [pc EXCEPT ![r] = "middleware"]
    /\ UNCHANGED <<DOCLING_API_TOKEN, loc, client, opened, out, backend, resp, log>>

\* The middleware, up to "await call_next(request)" or the response it returns.
authenticate_request(r) ==
    /\ pc[r] = "middleware"
    /\ LET q == req[r][1]
           g == Gate(DOCLING_API_TOKEN, q.path, q.auth)
       IN /\ log' = [log EXCEPT ![r] =
                        IF "print" \in DOMAIN g
                        THEN Append(@, [level |-> "PRINT", text |-> g.print])
                        ELSE @]
          /\ IF g.kind = "next"
             THEN /\ pc' = [pc EXCEPT ![r] = "routing"]
                  /\ resp' = resp
             ELSE /\ pc' = [pc EXCEPT ![r] = "responded"]
                  /\ resp' = [resp EXCEPT ![r] = Some(g.response)]
    /\ UNCHANGED <<DOCLING_API_TOKEN, req, loc, client, opened, out, backend>>

\* GET /health
health(r) ==
    /\ pc[r] = "routing"
    /\ Dispatch(req[r][1]) = "health"
    /\ resp' = [resp EXCEPT ![r] =
                   Some([status_code |-> 200,
                         content |-> JsonObject("status", "ok"),
                         headers |-> ("content-type" :> "application/json")])]
    /\ pc' = [pc EXCEPT ![r] = "responded"]
    /\ UNCHANGED <<DOCLING_API_TOKEN, req, loc, client, opened, out, backend, log>>

\* What FastAPI itself answers: its documentation pages, 404 and 405.
FrameworkResponse(h) ==
    CASE h = "docs" -> [status_code |-> 200, content |-> <<"<html>docs</html>">>,
                        headers |-> ("content-type" :> "text/html")]
      [] h = "openapi" -> [status_code |-> 200, content |-> <<"{\"openapi\":\"3.1.0\"}">>,
                           headers |-> ("content-type" :> "application/json")]
      [] h = "not_found" -> JSONResponse(404, "Not Found")
      [] h = "method_not_allowed" -> JSONResponse(405, "Method Not Allowed")

Framework(r) ==
    /\ pc[r] = "routing"
    /\ Dispatch(req[r][1]) \in {"docs", "openapi", "not_found", "method_not_allowed"}
    /\ resp' = [resp EXCEPT ![r] = Some(FrameworkResponse(Dispatch(req[r][1])))]
    /\ pc' = [pc EXCEPT ![r] = "responded"]
    /\ UNCHANGED <<DOCLING_API_TOKEN, req, loc, client, opened, out, backend, log>>

\* A POST handler: content_type = ...; raw_body = await request.body()
ReadBody(r) ==
    /\ pc[r] = "routing"
    /\ Dispatch(req[r][1]) \in PostHandlers
    /\ loc' = [loc EXCEPT ![r] =
                  Some([content_type |-> HeaderGet(req[r][1].content_type, ""),
                        raw_body |-> req[r][1].body])]
    /\ pc' = [pc EXCEPT ![r] = "acquire"]
    /\ UNCHANGED <<DOCLING_API_TOKEN, req, client, opened, out, backend, resp, log>>

\* "await request.body()" raises (the caller went away while sending): the
\* statement is outside the handler's try, so the exception leaves the handler.
ReadBodyFail(r) ==
    /\ pc[r] = "routing"
    /\ Dispatch(req[r][1]) \in PostHandlers
    /\ pc' = [pc EXCEPT ![r] = "raised"]
    /\ UNCHANGED <<DOCLING_API_TOKEN, req, loc, client, opened, out, backend, resp, log>>

\* The handler is about to enter "async with httpx.AsyncClient() as client":
\* a POST handler after its body is read, a GET handler at once.
AtAcquire(r) ==
    \/ pc[r] = "acquire"
    \/ pc[r] = "routing" /\ Dispatch(req[r][1]) \in GetHandlers

Locals(r) == IF loc[r] = None THEN None ELSE loc[r][1]

Acquire(r) ==
    /\ AtAcquire(r)
    /\ LET c == NewClient(opened \cup {client[t] : t \in Tasks}) IN
          /\ client' = [client EXCEPT ![r] = c]
          /\ opened' = opened \cup {c}
    /\ log' = [log EXCEPT ![r] = @ \o InfoLog(req[r][1], Locals(r))]
    /\ pc' = [pc EXCEPT ![r] = "send"]
    /\ UNCHANGED <<DOCLING_API_TOKEN, req, loc, out, backend, resp>>

\* httpx.AsyncClient() raises: also outside the handler's try.
AcquireFail(r) ==
    /\ AtAcquire(r)
    /\ log' = [log EXCEPT ![r] = @ \o InfoLog(req[r][1], Locals(r))]
    /\ pc' = [pc EXCEPT ![r] = "raised"]
    /\ UNCHANGED <<DOCLING_API_TOKEN, req, loc, client, opened, out, backend, resp>>

\* "await client.post(...)" or "await client.get(...)": the call goes out.
Send(r) ==
    /\ pc[r] = "send"
    /\ out' = [out EXCEPT ![r] =
                  Some([call |-> OutboundCall(req[r][1], Locals(r)),
                        client |-> client[r]])]
    /\ pc' = [pc EXCEPT ![r] = "awaiting"]
    /\ UNCHANGED <<DOCLING_API_TOKEN, req, loc, client, opened, backend, resp, log>>

\* The backend answers: "return Response(...)".
BackendRespond(r, responses) ==
    /\ pc[r] = "awaiting"
    /\ \E b \in responses :
          /\ backend' = [backend EXCEPT ![r] = Some([kind |-> "response", response |-> b])]
          /\ resp' = [resp EXCEPT ![r] = Some(Relay(b))]
    /\ pc' = [pc EXCEPT ![r] = "exiting"]
    /\ UNCHANGED <<DOCLING_API_TOKEN, req, loc, client, opened, out, log>>

\* The call raises: "except Exception", logger.error, raise HTTPException.
BackendFail(r, failures) ==
    /\ pc[r] = "awaiting"
    /\ \E e \in failures :
          /\ backend' = [backend EXCEPT ![r] = Some([kind |-> "error", error |-> e])]
          /\ log' = [log EXCEPT ![r] =
                        Append(@, [level |-> "ERROR", url |-> out[r][1].call.url,
                                   exc_info |-> e])]
          /\ resp' = [resp EXCEPT ![r] = Some(UpstreamError(e))]
    /\ pc' = [pc EXCEPT ![r] = "exiting"]
    /\ UNCHANGED <<DOCLING_API_TOKEN, req, loc, client, opened, out>>

\* The task is cancelled while it awaits the backend (the caller went away):
\* CancelledError is no Exception, and leaves through "async with".
Cancel(r) ==
    /\ pc[r] = "awaiting"
    /\ backend' = [backend EXCEPT ![r] = Some([kind |-> "cancelled"])]
    /\ pc' = [pc EXCEPT ![r] = "exiting"]
    /\ UNCHANGED <<DOCLING_API_TOKEN, req, loc, client, opened, out, resp, log>>

\* Leaving "async with": the client is closed, then the handler has returned.
Release(r) ==
    /\ pc[r] = "exiting"
    /\ opened' = Close(opened, client[r])
    /\ pc' = [pc EXCEPT ![r] = IF resp[r] = None THEN "cancelled" ELSE "responded"]
    /\ UNCHANGED <<DOCLING_API_TOKEN, req, loc, client, out, backend, resp, log>>

\* The request/response cycle is over; nothing of it outlives it.
Complete(r) ==
    /\ pc[r] \in Finished
    /\ pc' = [pc EXCEPT ![r] = "idle"]
    /\ req' = [req EXCEPT ![r] = None]
    /\ loc' = [loc EXCEPT ![r] = None]
    /\ client' = [client EXCEPT ![r] = 0]
    /\ out' = [out EXCEPT ![r] = None]
    /\ backend' = [backend EXCEPT ![r] = None]
    /\ resp' = [resp EXCEPT ![r] = None]
    /\ log' = [log EXCEPT ![r] = <<>>]
    /\ UNCHANGED <<DOCLING_API_TOKEN, opened>>

-----------------------------------------------------------------------------
(* Inputs.                                                                 *)

Methods == {"GET", "POST"}

Waits == {0, 25}

\* The words and blanks Authorization header values are made of.
Pieces ==
    {<<"B", "e", "a", "r", "e", "r">>, <<"b", "E", "A", "R", "E", "R">>,
     <<" ">>, <<"t", "K">>}

RECURSIVE HeaderValues(_)
HeaderValues(n) ==
    IF n = 0 THEN {<<>>}
    ELSE LET shorter == HeaderValues(n - 1) IN
         shorter \cup {p \o s : p \in Pieces, s \in shorter}

\* Every Authorization header: absent, or a value of up to MaxPieces pieces.
AllAuth == {None} \cup {Some(s) : s \in HeaderValues(MaxPieces)}

BearerTK == Some(<<"B", "e", "a", "r", "e", "r", " ", "t", "K">>)
bEARERtk == Some(<<"b", "E", "A", "R", "E", "R", " ", "t", "k">>)

\* Absent, "Bearer tK" and "bEARER tk".
FewAuth == {None, BearerTK, bEARERtk}

ContentTypes == {None, Some("application/pdf")}

Bodies == {"", "PDFDATA"}

\* The wait query parameter is read by the status poll route alone.
WaitsOf(path) ==
    IF RouteOf(path).handler = "proxy_task_status" THEN Waits ELSE {0}

Requests(methods, paths, auths, ctypes, bodies) ==
    UNION {[method : methods, path : {p}, auth : auths,
            content_type : ctypes, body : bodies, wait : WaitsOf(p)] : p \in paths}

BackendHeaders ==
    {("content-type" :> "application/json"),
     ("content-type" :> "text/plain") @@ ("x-request-id" :> "7")}

BackendResponses ==
    [status_code : {200, 404, 500},
     content : {<<"{\"result\":\"ok\"}">>, <<"backend says no">>},
     headers : BackendHeaders]

\* What the outbound call can raise.
Failures ==
    {[type |-> "ConnectError", text |-> "All connection attempts failed",
      partial |-> ""],
     [type |-> "ReadTimeout", text |-> "timed out", partial |-> ""],
     [type |-> "RemoteProtocolError", text |-> "peer closed connection",
      partial |-> "{\"resu"]}

\* One request at a time, every route, payload and backend outcome.
SeqEnv ==
    [requests |-> Requests(Methods, Paths, FewAuth, ContentTypes, Bodies),
     responses |-> BackendResponses,
     failures |-> Failures]

\* One request at a time, every Authorization header.
GateEnv ==
    [requests |-> Requests(Methods, Paths, AllAuth, {None}, {""}),
     responses |-> {[status_code |-> 200, content |-> <<"{\"result\":\"ok\"}">>,
                     headers |-> ("content-type" :> "application/json")]},
     failures |-> {[type |-> "ConnectError",
                    text |-> "All connection attempts failed", partial |-> ""]}]

\* Concurrent requests: a health check, the API description, asynchronous
\* kick-offs with and without a header, and polling.
ConcEnv ==
    [requests |->
        Requests({"GET"}, {<<"health">>}, {None}, {None}, {""})
        \cup Requests({"GET"}, {<<"openapi.json">>}, {BearerTK}, {None}, {""})
        \cup Requests({"POST"}, {<<"convert", "source", "async">>},
                      {None, BearerTK}, {Some("application/json")}, {"{\"src\":1}"})
        \cup {q \in Requests({"GET"}, {<<"status", "poll", t>> : t \in TaskIds},
                             {bEARERtk}, {None}, {""}) : q.wait > 0},
     responses |-> {b \in BackendResponses :
                       /\ b.status_code = 500
                       /\ b.content = <<"backend says no">>
                       /\ "x-request-id" \in DOMAIN b.headers},
     failures |-> {e \in Failures : e.type = "ReadTimeout"}]

-----------------------------------------------------------------------------
(* Specifications.                                                         *)

Step(r, env) ==
    \/ Receive(r, env.requests)
    \/ authenticate_request(r)
    \/ health(r)
    \/ Framework(r)
    \/ ReadBody(r)
    \/ ReadBodyFail(r)
    \/ Acquire(r)
    \/ AcquireFail(r)
    \/ Send(r)
    \/ BackendRespond(r, env.responses)
    \/ BackendFail(r, env.failures)
    \/ Cancel(r)
    \/ Release(r)
    \/ Complete(r)

\* Once a handler holds a client, the event loop resumes it whenever it can
\* run, and its outbound call ends: with a response, with an exception (its
\* timeout at the latest), or with the task cancelled.
Fairness(r, env) ==
    /\ WF_vars(Send(r))
    /\ WF_vars(BackendRespond(r, env.responses) \/ BackendFail(r, env.failures)
               \/ Cancel(r))
    /\ WF_vars(Release(r))

Init == InitOf(Secrets)

\* One request after the other, over every route and payload.
Next == Step(1, SeqEnv)
Spec == Init /\ [][Next]_vars

\* One request after the other, over every Authorization header.
NextGate == Step(1, GateEnv)
SpecGate == Init /\ [][NextGate]_vars

\* NumRequests requests in progress at once.
NextConc == \E r \in Tasks : Step(r, ConcEnv)
SpecConc == Init /\ [][NextConc]_vars

\* Concurrent requests that the event loop keeps running.
SpecFair == SpecConc /\ \A r \in Tasks : Fairness(r, ConcEnv)

-----------------------------------------------------------------------------
(* Vocabulary of the properties.                                           *)

AllowListed(path) ==
    path = <<"health">> \/ path = <<"docs">> \/ path = <<"openapi.json">>

SecretConfigured == DOCLING_API_TOKEN # None /\ DOCLING_API_TOKEN[1] # <<>>

\* The whitespace-separated tokens of a header value.
RECURSIVE Words(_)
Words(v) ==
    LET a == LStrip(v) IN
    IF a = <<>> THEN <<>>
    ELSE LET w == FirstWord(a) IN <<w>> \o Words(SubSeq(a, Len(w) + 1, Len(a)))

\* The scheme token, and what follows the first run of blanks after it.
SchemeWord(v) == FirstWord(LStrip(v))
TokenPart(v) ==
    LET a == LStrip(v) IN LStrip(SubSeq(a, Len(FirstWord(a)) + 1, Len(a)))

IsBearer(w) == Lower(w) = bearer

\* The task's request is past the Auth Gate.
Past(r) == req[r] # None /\ pc[r] # "middleware"

\* The gate answered the request itself, with this status and message.
Rejected(r, status, detail) ==
    /\ pc[r] = "responded"
    /\ out[r] = None
    /\ resp[r] # None
    /\ resp[r][1].status_code = status
    /\ resp[r][1].content = <<"{\"", "detail", "\":\"", detail, "\"}">>

MsgConfig == "Service unavailable: Configuration error"
MsgRequired == "Authorization header required"
MsgFormat == "Invalid Authorization header format. Expected 'Bearer <token>'"
MsgToken == "Invalid authorization token"

\* The header passes the gate's presence, format and value checks.
Authorized(q) ==
    /\ SecretConfigured
    /\ q.auth # None
    /\ IsBearer(SchemeWord(q.auth[1]))
    /\ TokenPart(q.auth[1]) = DOCLING_API_TOKEN[1]

-----------------------------------------------------------------------------
(* C1: under any interleaving of concurrent requests, a backend call is    *)
(* issued for a request only if it is to a protected path, the secret is   *)
(* configured, the Authorization header is present, its scheme is Bearer   *)
(* in any letter case and its token is exactly the secret; a request the   *)
(* gate answered with 401 or 503 has no backend call.                      *)
C1_BackendCallOnlyIfAuthorized ==
    \A r \in Tasks :
        /\ pc[r] \in {"send", "awaiting", "exiting"} \/ out[r] # None
              => /\ Authorized(req[r][1])
                 /\ ~AllowListed(req[r][1].path)
        /\ \A d \in {MsgRequired, MsgFormat, MsgToken} : Rejected(r, 401, d) => out[r] = None
        /\ Rejected(r, 503, MsgConfig) => out[r] = None

\* A call is in flight for one request while the gate has rejected another.
C1_Witness ==
    \E r1, r2 \in Tasks :
        /\ r1 # r2
        /\ pc[r1] = "awaiting" /\ out[r1] # None
        /\ Rejected(r2, 401, MsgToken)

(* C2: with the secret unset or empty, every request to a path off the     *)
(* allow-list is answered 503 with the configuration-error message,        *)
(* whatever its Authorization header; it gets no 401 and is not forwarded. *)
C2_UnsetSecretFailsClosed ==
    \A r \in Tasks :
        Past(r) /\ ~SecretConfigured /\ ~AllowListed(req[r][1].path)
            => Rejected(r, 503, MsgConfig)

\* An empty secret, and a well-formed bearer header: 503 all the same.
C2_Witness ==
    \E r \in Tasks :
        /\ DOCLING_API_TOKEN = Some(<<>>)
        /\ Rejected(r, 503, MsgConfig)
        /\ req[r][1].auth # None
        /\ Len(Words(req[r][1].auth[1])) = 2
        /\ IsBearer(SchemeWord(req[r][1].auth[1]))

(* C3, as stated: with the secret configured, every protected request     *)
(* whose header value is not exactly two whitespace-separated tokens with  *)
(* the first equal to Bearer in any letter case (one token, three or more, *)
(* another scheme, present but empty) gets 401 with the format message.    *)
C3_AsStated ==
    \A r \in Tasks :
        /\ Past(r) /\ SecretConfigured /\ ~AllowListed(req[r][1].path)
        /\ req[r][1].auth # None
        /\ ~(/\ Len(Words(req[r][1].auth[1])) = 2
             /\ IsBearer(Words(req[r][1].auth[1])[1]))
        => Rejected(r, 401, MsgFormat)

(* C3, amended: with the secret configured, every protected request whose  *)
(* header value is not empty and has fewer than two whitespace-separated   *)
(* tokens, or a first token that is not Bearer in any letter case, gets    *)
(* 401 with the format message.  A present but empty value gets 401 with   *)
(* the header-required message, and a value of three or more tokens whose  *)
(* first is Bearer passes the format check: all that follows the first run *)
(* of whitespace is the token.                                             *)
C3_FormatCheck ==
    \A r \in Tasks :
        /\ Past(r) /\ SecretConfigured /\ ~AllowListed(req[r][1].path)
        /\ req[r][1].auth # None
        => LET v == req[r][1].auth[1] IN
           /\ v # <<>> /\ (Len(Words(v)) < 2 \/ ~IsBearer(Words(v)[1]))
                => Rejected(r, 401, MsgFormat)
           /\ v = <<>> => Rejected(r, 401, MsgRequired)
           /\ Len(Words(v)) >= 3 /\ IsBearer(Words(v)[1])
                => ~Rejected(r, 401, MsgFormat)

\* A header of the single token "Bearer" is answered with the format message.
C3_Witness ==
    \E r \in Tasks :
        /\ Rejected(r, 401, MsgFormat)
        /\ Len(Words(req[r][1].auth[1])) = 1
        /\ IsBearer(Words(req[r][1].auth[1])[1])

(* C4: with the secret configured and a header made of the scheme Bearer,  *)
(* in any letter case, and a token part, the gate answers 401 with the     *)
(* invalid-token message exactly when the token part differs from the      *)
(* secret; the comparison is exact and case-sensitive.                     *)
C4_ValueCheck ==
    \A r \in Tasks :
        /\ Past(r) /\ SecretConfigured /\ ~AllowListed(req[r][1].path)
        /\ req[r][1].auth # None
        /\ IsBearer(SchemeWord(req[r][1].auth[1]))
        /\ TokenPart(req[r][1].auth[1]) # <<>>
        => (Rejected(r, 401, MsgToken)
               <=> TokenPart(req[r][1].auth[1]) # DOCLING_API_TOKEN[1])

\* Scheme "bEARER", and a token that differs from the secret in case alone.
C4_Witness ==
    \E r \in Tasks :
        /\ Rejected(r, 401, MsgToken)
        /\ SchemeWord(req[r][1].auth[1]) = <<"b", "E", "A", "R", "E", "R">>
        /\ TokenPart(req[r][1].auth[1]) # DOCLING_API_TOKEN[1]
        /\ Lower(TokenPart(req[r][1].auth[1])) = Lower(DOCLING_API_TOKEN[1])

(* C5: a request to /health, /docs or /openapi.json passes the gate with   *)
(* no configuration, presence, format or value check, whatever the secret  *)
(* and the Authorization header; GET /health always yields 200 and         *)
(* {"status": "ok"}.                                                       *)
C5_AllowListBypass ==
    \A r \in Tasks :
        Past(r) /\ AllowListed(req[r][1].path)
            => /\ pc[r] \in {"routing", "responded"}
               /\ log[r] = <<>>
               /\ out[r] = None
               /\ pc[r] = "responded"
                    => /\ resp[r][1].status_code \notin {401, 503}
                       /\ req[r][1].method = "GET" /\ req[r][1].path = <<"health">>
                            => /\ resp[r][1].status_code = 200
                               /\ resp[r][1].content =
                                     <<"{\"", "status", "\":\"", "ok", "\"}">>

\* GET /health answered 200 with the secret unset and a header of no Bearer scheme.
C5_Witness ==
    \E r \in Tasks :
        /\ pc[r] = "responded"
        /\ req[r][1].path = <<"health">> /\ req[r][1].method = "GET"
        /\ DOCLING_API_TOKEN = None
        /\ req[r][1].auth # None
        /\ ~IsBearer(SchemeWord(req[r][1].auth[1]))
        /\ resp[r][1].status_code = 200

-----------------------------------------------------------------------------
\* The handler's outbound call ended with this backend response.
BackendAnswered(r) == backend[r] # None /\ backend[r][1].kind = "response"

\* The handler's outbound call raised.
BackendFailed(r) == backend[r] # None /\ backend[r][1].kind = "error"

C7_TransportFailureIs500 ==
    \A r \in Tasks :
        BackendFailed(r)
            => /\ Dispatch(req[r][1]) \in ProxyHandlers
               /\ resp[r] # None
               /\ resp[r][1].status_code = 500
               /\ resp[r][1].content =
                     <<"{\"", "detail", "\":\"",
                       "Error communicating with backend service", "\"}">>
               /\ \A chunk \in Range(resp[r][1].content) :
                     /\ chunk # backend[r][1].error.text
                     /\ chunk # backend[r][1].error.type
                     /\ chunk # backend[r][1].error.partial
                     /\ chunk \notin Range(out[r][1].call.url)

\* The status-poll handler answered 500 after the backend broke off mid-response.
C7_Witness ==
    \E r \in Tasks :
        /\ pc[r] = "responded"
        /\ BackendFailed(r)
        /\ Dispatch(req[r][1]) = "proxy_task_status"
        /\ backend[r][1].error.partial # ""
        /\ resp[r][1].status_code = 500

(* C8: no failure at any step of a handler (reading the inbound body,      *)
(* acquiring the outbound client, issuing the call, building the relayed   *)
(* response) leaves the handler uncaught: every one ends in a response.    *)
C8_NoFailureLeavesHandler ==
    \A r \in Tasks : pc[r] # "raised"

(* C9: every outbound call uses a client of its own, shared with no other  *)
(* request and open while the call is in progress; once a handler is over  *)
(* (response returned, transport failure or cancellation) the client it    *)
(* acquired is closed; and every client that is opened is eventually       *)
(* closed.                                                                 *)
C9_ClientScoped ==
    /\ [](\A r \in Tasks :
            /\ pc[r] \in {"send", "awaiting", "exiting"}
                 => client[r] \in opened
            /\ out[r] # None => out[r][1].client = client[r]
            /\ pc[r] \in Finished => client[r] \notin opened
            /\ \A t \in Tasks \ {r} : client[r] # 0 => client[r] # client[t])
    /\ \A c \in 1..NumRequests : (c \in opened) ~> (c \notin opened)

\* One handler has returned after a transport failure, its client closed,
\* while another request's client is open.
C9_Witness ==
    \E r, t \in Tasks :
        /\ r # t
        /\ pc[r] = "responded" /\ BackendFailed(r)
        /\ client[r] # 0 /\ client[r] \notin opened
        /\ pc[t] = "awaiting" /\ client[t] \in opened

(* C10, as stated: on each of the five routes the outbound call carries    *)
(* the inbound body and a Content-Type header with the inbound value, or   *)
(* the empty string when the inbound header is absent.                     *)
C10_AsStated ==
    \A r \in Tasks :
        out[r] # None
            => /\ out[r][1].call.content = Some(req[r][1].body)
               /\ "Content-Type" \in DOMAIN out[r][1].call.headers
               /\ out[r][1].call.headers["Content-Type"] =
                     (IF req[r][1].content_type = None THEN ""
                      ELSE req[r][1].content_type[1])

(* C10, amended: on each of the three POST convert routes the outbound     *)
(* call carries the inbound body and a Content-Type header with the        *)
(* inbound value, or the empty string when the inbound header is absent;   *)
(* on the two GET routes (status poll, task result) the outbound call is a *)
(* GET that carries neither a body nor a Content-Type header.              *)
C10_ForwardedPayload ==
    \A r \in Tasks :
        out[r] # None
            => /\ Dispatch(req[r][1]) \in PostHandlers
                    => /\ out[r][1].call.method = "POST"
                       /\ out[r][1].call.content = Some(req[r][1].body)
                       /\ "Content-Type" \in DOMAIN out[r][1].call.headers
                       /\ out[r][1].call.headers["Content-Type"] =
                             (IF req[r][1].content_type = None THEN ""
                              ELSE req[r][1].content_type[1])
               /\ Dispatch(req[r][1]) \in GetHandlers
                    => /\ out[r][1].call.method = "GET"
                       /\ out[r][1].call.content = None
                       /\ DOMAIN out[r][1].call.headers = {}

\* A POST call has gone out with an empty Content-Type for a request that had
\* none, and carries the request's body.
C10_Witness ==
    \E r \in Tasks :
        /\ out[r] # None
        /\ Dispatch(req[r][1]) = "proxy_convert_source"
        /\ req[r][1].content_type = None
        /\ req[r][1].body = "PDFDATA"
        /\ out[r][1].call.headers["Content-Type"] = ""
        /\ out[r][1].call.content = Some("PDFDATA")

====
